---- MODULE Spec2Model ----
(***************************************************************************)
(* A model of tiz-dl.py: the resolution of a source URL to a video URL     *)
(* (extract_video_url), the dispatch of main, the delegated download with  *)
(* its browser-cookie ladder (download_youtube_video) and the direct       *)
(* streaming download (download_video).                                    *)
(*                                                                         *)
(* Strings.  A URL is a sequence of tokens; a token is an atomic piece of  *)
(* text ("youtube.com", ".mp4", "?", "v=", ...).  Python's substring test  *)
(* `p in s`, split, endswith, lower and unquote are computed on the token  *)
(* sequence.  The empty sequence stands for both None and "" (both falsy). *)
(***************************************************************************)
EXTENDS Integers, Sequences, FiniteSets, TLC

(***************************************************************************)
(* Bounds of the model.                                                    *)
(***************************************************************************)
\* A source URL is a base URL followed by at most MaxSuffixes suffixes.
MaxSuffixes == 1
\* A fetched page body has at most MaxElems elements.
MaxElems == 1
\* At most MaxRaise launches of the tool raise an exception in one job.
MaxRaise == 1
\* A page resolved on its own has at most MaxPageElems elements.
MaxPageElems == 2

(***************************************************************************)
(* String operations on token sequences.                                   *)
(***************************************************************************)
NoUrl == <<>>

\* Python: t in s, for a one-token pattern t.
Has(s, t) == \E i \in 1..Len(s) : s[i] = t

\* Index of the first occurrence of the pattern p in s, 0 if there is none.
IndexOf(s, p) ==
    LET hits == { i \in 1..(Len(s) - Len(p) + 1) : SubSeq(s, i, i + Len(p) - 1) = p }
    IN  IF hits = {} THEN 0 ELSE CHOOSE i \in hits : \A j \in hits : i <= j

\* Python: p in s.
Contains(s, p) == IndexOf(s, p) # 0

\* Python: s.split(p)[0].
Before(s, p) == IF Contains(s, p) THEN SubSeq(s, 1, IndexOf(s, p) - 1) ELSE s

\* The text after the first occurrence of p (s.split(p, 1)[1]); p occurs in s.
After(s, p) == SubSeq(s, IndexOf(s, p) + Len(p), Len(s))

\* Python: s.split(p)[1], the piece between the first two occurrences of p.
SplitSecond(s, p) == Before(After(s, p), p)

\* Python: str.lower on one token.
LowerTok(t) ==
    CASE t = ".MP4" -> ".mp4"
      [] t = "ID"   -> "id"
      [] OTHER      -> t

\* Python: s.lower().
Lower(s) == [i \in 1..Len(s) |-> LowerTok(s[i])]

\* Python: s.endswith(tuple of one-token suffixes).
EndsWithAny(s, sufs) == Len(s) > 0 /\ s[Len(s)] \in sufs

\* urllib.parse.unquote on one token: percent-escapes are decoded.
UnquoteTok(t) ==
    CASE t = "https%3A%2F%2Fcdn%2Fclip" -> "https://cdn/clip"
      [] t = "%2Emp4"                   -> ".mp4"
      [] OTHER                          -> t

\* urllib.parse.unquote.
unquote(s) == [i \in 1..Len(s) |-> UnquoteTok(s[i])]

\* urlparse(url).query: the text between the first "?" and the first "#".
Query(url) ==
    LET noFrag == Before(url, <<"#">>)
    IN  IF Has(noFrag, "?") THEN After(noFrag, <<"?">>) ELSE <<>>

\* parse_qs(q)['v'][0]: the decoded value of the first parameter named v
\* that has a non-blank value; <<>> when 'v' is not a key of the result.
RECURSIVE FirstV(_)
FirstV(q) ==
    IF q = <<>> THEN <<>>
    ELSE LET p    == Before(q, <<"&">>)
             rest == IF Has(q, "&") THEN After(q, <<"&">>) ELSE <<>>
         IN  IF Len(p) > 1 /\ p[1] = "v=" THEN unquote(Tail(p)) ELSE FirstV(rest)

\* 'v' in parse_qs(urlparse(url).query) and its first value.
QueryV(url) == FirstV(Query(url))

(***************************************************************************)
(* Program constants.                                                      *)
(***************************************************************************)
\* extract_video_url: video_extensions.
video_extensions == <<".mp4", ".mkv", ".mov", ".avi", ".wmv", ".flv", ".webm">>

\* main: the suffixes of the endswith test.
MainSuffixes == {".mp4", ".mkv", ".mov", ".webm", ".avi"}

\* download_youtube_video: browsers.
browsers == <<"chrome", "firefox", "edge", "safari", "brave", "opera">>

\* The -f expression for quality 'best', also hard-coded in the ladder.
BestFormat == "bestvideo*+bestaudio/best"

\* argparse: choices of --quality.
Qualities == {"best", "audio", "720p", "1080p"}

\* The candidate places of cookies.txt besides the --cookies argument.
ScriptDirCookies == "<script_dir>/cookies.txt"
CwdCookies       == "<cwd>/cookies.txt"
ConfigCookies    == "~/.config/yt-dlp/cookies.txt"
GivenCookies     == "<--cookies>"

CookiePaths == {GivenCookies, ScriptDirCookies, CwdCookies, ConfigCookies}

(***************************************************************************)
(* Pure functions of tiz-dl.py.                                            *)
(***************************************************************************)
is_youtube_url(url) == Has(url, "youtube.com") \/ Has(url, "youtu.be")

WatchUrl(video_id) == <<"https://www.", "youtube.com", "/watch", "?", "v=">> \o video_id

normalize_youtube_url(url) ==
    IF Has(url, "/embed/")
    THEN WatchUrl(Before(SplitSecond(url, <<"/embed/">>), <<"?">>))
    ELSE IF Contains(url, <<"youtu.be", "/">>)
    THEN WatchUrl(Before(SplitSecond(url, <<"youtu.be", "/">>), <<"?">>))
    ELSE IF QueryV(url) # <<>>
    THEN WatchUrl(QueryV(url))
    ELSE url

\* Mutant: only .mp4 counts as a video extension.
HasVideoExtension_Mp4Only(url) == Has(Lower(url), ".mp4")

\* extract_video_url: any(ext in url.lower() for ext in video_extensions).
HasVideoExtension(url) ==
    \E k \in 1..Len(video_extensions) : Has(Lower(url), video_extensions[k])

\* download_youtube_video: the -f expression of the first command.
FormatFor(quality) ==
    CASE quality = "best"  -> BestFormat
      [] quality = "audio" -> "bestaudio"
      [] OTHER             -> quality

\* Mutant: the working directory is searched before the script's directory.
cookies_locations_CwdFirst(cookies_file) ==
    (IF cookies_file = "" THEN <<>> ELSE <<cookies_file>>)
        \o <<CwdCookies, ScriptDirCookies, ConfigCookies>>

\* download_youtube_video: the candidate list, None (here "") filtered out.
cookies_locations(cookies_file) ==
    (IF cookies_file = "" THEN <<>> ELSE <<cookies_file>>)
        \o <<ScriptDirCookies, CwdCookies, ConfigCookies>>

\* download_youtube_video: the first existing candidate, "" if none exists.
RECURSIVE FirstExisting(_, _)
FirstExisting(locs, existing) ==
    IF locs = <<>> THEN ""
    ELSE IF Head(locs) \in existing THEN Head(locs)
    ELSE FirstExisting(Tail(locs), existing)

\* The first command line of download_youtube_video.
FirstCmd(cookies_path, quality, url) ==
    [ cookies |-> cookies_path, browser |-> "", hardening |-> TRUE,
      fmt |-> FormatFor(quality), extract_audio |-> (quality = "audio"),
      no_playlist |-> TRUE, url |-> url, capture |-> TRUE ]

\* The command line of one step of the browser-cookie ladder.
AltCmd(browser, quality, url) ==
    [ cookies |-> "", browser |-> browser, hardening |-> FALSE,
      fmt |-> BestFormat, extract_audio |-> FALSE,
      no_playlist |-> FALSE, url |-> url, capture |-> FALSE ]

(***************************************************************************)
(* Fetched pages.  A body is a sequence of elements in document order;     *)
(* each carries the one URL-valued attribute the extractor reads:          *)
(*   iframe          <iframe src=url> outside any video-wrapper            *)
(*   wrapper_iframe  <div class="video-wrapper"><iframe src=url></div>     *)
(*   wrapper_empty   <div class="video-wrapper"></div> (no iframe inside)  *)
(*   flowplayer      <div class="flowplayer" data-item='{"sources":        *)
(*                   [{"src": url}]}'>                                     *)
(*   flowplayer_bad  <div class="flowplayer" data-item='not json'>         *)
(*   video_source    <video><source src=url></video>                       *)
(*   video_src       <video src=url></video>                               *)
(*   a               <a href=url>                                          *)
(* The raw text of the body holds every such URL between quotes.           *)
(***************************************************************************)
IframeKinds == {"iframe", "wrapper_iframe"}
WrapperKinds == {"wrapper_iframe", "wrapper_empty"}
FlowKinds == {"flowplayer", "flowplayer_bad"}
VideoKinds == {"video_source", "video_src"}

\* The smallest index of a set of indices, 0 for the empty set.
MinIdx(S) == IF S = {} THEN 0 ELSE CHOOSE i \in S : \A j \in S : i <= j

\* The largest index of a set of indices, 0 for the empty set.
MaxIdx(S) == IF S = {} THEN 0 ELSE CHOOSE i \in S : \A j \in S : j <= i

\* Tokens that start with http:// or https://.
SchemeToks == {"https://h/page", "https://www.", "https://", "https://cdn/clip",
               "https://video.tiz-cycling.io/"}

\* Scheme tokens with text after the "://".
PayloadToks == SchemeToks \ {"https://"}

\* Python: s.startswith('http').
StartsWithHttp(s) == Len(s) > 0 /\ s[1] \in SchemeToks

\* re.findall(r'(https?://[^"\']+EXT[^"\']*)', value): the first match of
\* the pattern in one quoted value (greedy to its end), <<>> if none.
ExtMatch(val, ext) ==
    LET i == MinIdx({ k \in 1..Len(val) :
                        /\ val[k] \in SchemeToks
                        /\ \E j \in (k + 1)..Len(val) :
                              val[j] = ext /\ (val[k] \in PayloadToks \/ j > k + 1) })
    IN  IF i = 0 THEN <<>> ELSE SubSeq(val, i, Len(val))

\* re.findall(pattern, response.text)[0] for the generic pattern of ext,
\* <<>> when there is no match.
TextMatch(body, ext) ==
    LET i == MinIdx({ k \in 1..Len(body) : ExtMatch(body[k].url, ext) # <<>> })
    IN  IF i = 0 THEN <<>> ELSE ExtMatch(body[i].url, ext)

\* extract_video_url: the generic regex search, patterns in order.
GenericPatternSearch(body) ==
    IF TextMatch(body, ".mp4") # <<>> THEN unquote(TextMatch(body, ".mp4"))
    ELSE IF TextMatch(body, ".mov") # <<>> THEN unquote(TextMatch(body, ".mov"))
    ELSE IF TextMatch(body, ".webm") # <<>> THEN unquote(TextMatch(body, ".webm"))
    ELSE NoUrl

\* extract_video_url: links to youtube.com/watch or youtu.be/.
YoutubeLinkSearch(body) ==
    LET i == MinIdx({ k \in 1..Len(body) :
                 /\ body[k].kind = "a"
                 /\ \/ Contains(body[k].url, <<"youtube.com", "/watch">>)
                    \/ Contains(body[k].url, <<"youtu.be", "/">>) })
    IN  IF i = 0 THEN GenericPatternSearch(body) ELSE body[i].url

\* extract_video_url: the first <video>, its <source src> or its own src.
VideoTagSearch(body) ==
    LET i == MinIdx({ k \in 1..Len(body) : body[k].kind \in VideoKinds })
    IN  IF i = 0 THEN YoutubeLinkSearch(body) ELSE body[i].url

\* extract_video_url: the first div.flowplayer and its data-item.
FlowplayerSearch(body) ==
    LET i == MinIdx({ k \in 1..Len(body) : body[k].kind \in FlowKinds })
    IN  IF i # 0 /\ body[i].kind = "flowplayer" THEN body[i].url
        ELSE VideoTagSearch(body)

\* extract_video_url: the first iframe whose src contains youtube.com.
YoutubeIframeSearch(body) ==
    LET i == MinIdx({ k \in 1..Len(body) :
                 body[k].kind \in IframeKinds /\ Has(body[k].url, "youtube.com") })
    IN  IF i = 0 THEN FlowplayerSearch(body) ELSE body[i].url

\* extract_video_url: the iframe of the first video-wrapper.
WrapperSearch(body) ==
    LET i == MinIdx({ k \in 1..Len(body) : body[k].kind \in WrapperKinds })
    IN  IF i # 0 /\ body[i].kind = "wrapper_iframe"
        THEN LET src == body[i].url
                 v_value == unquote(QueryV(src))
             IN  IF QueryV(src) # <<>>
                 THEN IF StartsWithHttp(v_value) THEN v_value ELSE WatchUrl(v_value)
                 ELSE src
        ELSE YoutubeIframeSearch(body)

(***************************************************************************)
(* extract_tiz_url.                                                        *)
(***************************************************************************)
\* The last ".mp4" of val at or after position lo, 0 if none.
LastMp4(val, lo) == MaxIdx({ j \in lo..Len(val) : val[j] = ".mp4" })

\* r'(https?://video\.tiz-cycling\.io/[^"\']+\.mp4)' in one quoted value.
TizPattern1(val) ==
    LET i == MinIdx({ k \in 1..Len(val) :
                        /\ val[k] = "https://video.tiz-cycling.io/"
                        /\ LastMp4(val, k + 2) # 0 })
    IN  IF i = 0 THEN <<>> ELSE SubSeq(val, i, LastMp4(val, i + 2))

\* r'(https?://[^"\']+/Tiz-Cycling/[^"\']+\.mp4)' in one quoted value.
TizPattern2(val) ==
    LET i == MinIdx({ k \in 1..Len(val) :
                        /\ val[k] \in SchemeToks
                        /\ \E m \in (k + 1)..Len(val) :
                              /\ val[m] = "/Tiz-Cycling/"
                              /\ val[k] \in PayloadToks \/ m > k + 1
                              /\ LastMp4(val, m + 2) # 0 })
    IN  IF i = 0 THEN <<>> ELSE SubSeq(val, i, LastMp4(val, i + 1))

\* The end of a match of https?://[^&"\']+\.mp4 that starts at position i.
AmpFreeMp4End(val, i) ==
    MaxIdx({ j \in (i + 1)..Len(val) :
               /\ val[j] = ".mp4"
               /\ val[i] \in PayloadToks \/ j > i + 1
               /\ \A k \in i..j : val[k] # "&" })

\* r'v=(https?://[^&"\']+\.mp4)' in one quoted value: the group.
TizPattern3(val) ==
    LET i == MinIdx({ k \in 2..Len(val) :
                        /\ val[k - 1] = "v="
                        /\ val[k] \in SchemeToks
                        /\ AmpFreeMp4End(val, k) # 0 })
    IN  IF i = 0 THEN <<>> ELSE SubSeq(val, i, AmpFreeMp4End(val, i))

\* The match of the n-th of mp4_patterns in one quoted value.
TizPattern(n, val) ==
    CASE n = 1 -> TizPattern1(val)
      [] n = 2 -> TizPattern2(val)
      [] OTHER -> TizPattern3(val)

\* re.findall(mp4_patterns[n], text)[0], <<>> when there is no match.
TizMatch(body, n) ==
    LET i == MinIdx({ k \in 1..Len(body) : TizPattern(n, body[k].url) # <<>> })
    IN  IF i = 0 THEN <<>> ELSE TizPattern(n, body[i].url)

\* Lines 228-239 and 275-280: mp4_patterns, in order, on a text.
TizMp4Search(body) ==
    IF TizMatch(body, 1) # <<>> THEN unquote(TizMatch(body, 1))
    ELSE IF TizMatch(body, 2) # <<>> THEN unquote(TizMatch(body, 2))
    ELSE IF TizMatch(body, 3) # <<>> THEN unquote(TizMatch(body, 3))
    ELSE NoUrl

\* The directory of a URL's path, for the URLs that are fetched.
SiteDir(base) ==
    LET path == Before(Before(base, <<"#">>), <<"?">>)
        n == Len(path)
    IN  IF n = 1 THEN <<"https://h/">>
        ELSE IF path[n] = "/" THEN path
        ELSE SubSeq(path, 1, n - 1)

\* urllib.parse.urljoin(base, ref).
urljoin(base, ref) == IF StartsWithHttp(ref) THEN ref ELSE SiteDir(base) \o ref

\* Lines 252-282: the loop over the iframes, from element i on; used is the
\* number of iframe pages fetched so far, replies what those fetches return.
RECURSIVE TizIframeLoop(_, _, _, _, _)
TizIframeLoop(url, body, replies, i, used) ==
    IF i > Len(body) THEN [url |-> NoUrl, gets |-> used]
    ELSE IF body[i].kind \in IframeKinds /\ Has(body[i].url, "video.php")
    THEN LET video_php_url == urljoin(url, body[i].url)
         IN  IF QueryV(video_php_url) # <<>>
             THEN [url |-> unquote(QueryV(video_php_url)), gets |-> used]
             ELSE IF replies[used + 1].state = "ok"
                     /\ TizMp4Search(replies[used + 1].body) # NoUrl
             THEN [url |-> TizMp4Search(replies[used + 1].body), gets |-> used + 1]
             ELSE TizIframeLoop(url, body, replies, i + 1, used + 1)
    ELSE TizIframeLoop(url, body, replies, i + 1, used)

\* Lines 296-306: the other video extensions, in the order of the list.
RECURSIVE TizExtSearch(_, _)
TizExtSearch(body, k) ==
    IF k > Len(video_extensions) THEN NoUrl
    ELSE IF TextMatch(body, video_extensions[k]) # <<>>
    THEN unquote(TextMatch(body, video_extensions[k]))
    ELSE TizExtSearch(body, k + 1)

\* Lines 284-294: links to video.php?v=.
TizLinkSearch(url, body) ==
    LET i == MinIdx({ k \in 1..Len(body) :
                 /\ body[k].kind = "a"
                 /\ Contains(body[k].url, <<"video.php", "?", "v=">>)
                 /\ QueryV(urljoin(url, body[k].url)) # <<>> })
    IN  IF i = 0 THEN TizExtSearch(body, 1)
        ELSE unquote(QueryV(urljoin(url, body[i].url)))

\* Lines 245-249: the first iframe whose src is a YouTube URL, 0 if none.
TizYoutubeIframe(body) ==
    MinIdx({ k \in 1..Len(body) :
               body[k].kind \in IframeKinds /\ is_youtube_url(body[k].url) })

\* extract_tiz_url: the URL found (NoUrl: None) and the iframe pages fetched.
extract_tiz_url(url, body, replies) ==
    IF TizMp4Search(body) # NoUrl THEN [url |-> TizMp4Search(body), gets |-> 0]
    ELSE IF TizYoutubeIframe(body) # 0
    THEN [url |-> body[TizYoutubeIframe(body)].url, gets |-> 0]
    ELSE IF TizIframeLoop(url, body, replies, 1, 0).url # NoUrl
    THEN TizIframeLoop(url, body, replies, 1, 0)
    ELSE [url |-> TizLinkSearch(url, body),
          gets |-> TizIframeLoop(url, body, replies, 1, 0).gets]

\* The iframes extract_tiz_url may have to fetch: video.php without a v.
FollowableIframes(url, body) ==
    { i \in 1..Len(body) :
        /\ body[i].kind \in IframeKinds
        /\ Has(body[i].url, "video.php")
        /\ QueryV(urljoin(url, body[i].url)) = <<>> }

\* extract_video_url after the fetch: the redirect test, the special case
\* of tiz-cycling.tv, then the generic cascade.  resp is the response:
\* history (was redirected), url (final), body.  The result is the URL
\* returned (NoUrl: None) and the number of iframe pages fetched.
ExtractFromResponse(url, follow_redirects, resp, replies) ==
    IF follow_redirects /\ resp.history /\ resp.url # url /\ is_youtube_url(resp.url)
    THEN [url |-> resp.url, gets |-> 0]
    ELSE IF Has(url, "tiz-cycling.tv")
    THEN LET tiz == extract_tiz_url(url, resp.body, replies)
         IN  IF tiz.url # NoUrl THEN tiz
             ELSE IF Has(url, "video.php") /\ QueryV(url) # <<>>
             THEN [url |-> unquote(QueryV(url)), gets |-> tiz.gets]
             ELSE [url |-> WrapperSearch(resp.body), gets |-> tiz.gets]
    ELSE [url |-> WrapperSearch(resp.body), gets |-> 0]

(***************************************************************************)
(* Inputs.                                                                 *)
(***************************************************************************)
BaseUrls ==
    { <<"https://h/page">>,
      <<"https://www.", "youtube.com", "/watch">>,
      <<"https://", "youtu.be", "/", "ID">>,
      <<"https://", "tiz-cycling.tv", "/", "video.php">> }

Suffixes == { <<"?", "v=", "ID">>, <<".mp4">>, <<".flv">> }

RECURSIVE WithSuffixes(_)
WithSuffixes(n) ==
    IF n = 0 THEN BaseUrls
    ELSE WithSuffixes(n - 1) \cup { u \o s : u \in WithSuffixes(n - 1), s \in Suffixes }

SourceUrls == WithSuffixes(MaxSuffixes)

\* The URLs found in the attributes of a fetched page.
TizMp4 == <<"https://video.tiz-cycling.io/", "race", ".mp4">>

PageUrls ==
    { <<"https://www.", "youtube.com", "/embed/", "ID", "?", "x=1">>,
      <<"https://cdn/clip", ".mp4">>,
      <<"https://h/page", "?", "v=", "ID">>,
      <<"video.php", "?", "v=", "https%3A%2F%2Fcdn%2Fclip", ".mp4">>,
      <<"video.php">>,
      TizMp4 }

Elements ==
    [kind : {"iframe", "wrapper_iframe", "flowplayer", "video_source", "video_src", "a"},
     url : PageUrls]
    \cup [kind : {"wrapper_empty", "flowplayer_bad"}, url : {NoUrl}]

RECURSIVE Bodies(_)
Bodies(n) ==
    IF n = 0 THEN { <<>> }
    ELSE Bodies(n - 1) \cup { Append(b, e) : b \in Bodies(n - 1), e \in Elements }

\* The responses of the page fetch: not redirected, or redirected elsewhere.
Responses(url) ==
    [history : {FALSE}, url : {url}, body : Bodies(MaxElems)]
    \cup [history : {TRUE},
          url : { <<"https://www.", "youtube.com", "/watch", "?", "v=", "ID">>,
                  <<"https://h/moved">> },
          body : Bodies(MaxElems)]

\* What the fetch of an iframe page returns: an exception, or a text.
IframeReplies ==
    { [state |-> "raised", body |-> <<>>],
      [state |-> "ok", body |-> <<>>],
      [state |-> "ok", body |-> << [kind |-> "video_src", url |-> TizMp4] >>] }

\* The replies to the iframe fetches a response can lead to.
RepliesFor(url, resp) ==
    IF Has(url, "tiz-cycling.tv")
    THEN [1..Cardinality(FollowableIframes(url, resp.body)) -> IframeReplies]
    ELSE { <<>> }

(***************************************************************************)
(* State.                                                                  *)
(***************************************************************************)
VARIABLES
    source,            \* args.source
    direct_youtube,    \* args.direct_youtube
    verbose,           \* args.verbose
    file,              \* the destination file: "absent", "original", "partial", "complete"
    pc,                \* where main is
    fetched,           \* extract_video_url: its page fetch, until main has read the result
    video_url,         \* main: video_url (NoUrl: None)
    kind,              \* the branch main took for video_url
    quality,           \* args.quality, once download_youtube_video was called
    cookies_path,      \* download_youtube_video: cookies_path ("": None)
    browser_i,         \* download_youtube_video: the position in browsers
    yt_ret,            \* what download_youtube_video returned: "none", "true", "false"
    dv_report,         \* the status line download_video printed last
    answer,            \* the reply to the overwrite prompt, "unasked" before it
    trace,             \* the external operations of the job, in order
    calls,             \* the invocations of yt-dlp, in order, each with its outcome
    lookup,            \* the cookie lookup: candidates and the paths that exist
    exit_code          \* the exit code of the process, -1 while it runs

vars == << source, direct_youtube, verbose, file, pc, fetched, video_url, kind,
           quality, cookies_path, browser_i, yt_ret, dv_report, answer, trace,
           calls, lookup, exit_code >>

\* No page fetch: extract_video_url has not fetched, or has returned long ago.
NoFetch == [state |-> "none", follow_redirects |-> TRUE, history |-> FALSE,
            url |-> NoUrl, body |-> <<>>, replies |-> <<>>]

NoLookup == [given |-> "", existing |-> {}, done |-> FALSE]

Init ==
    /\ source \in SourceUrls
    /\ direct_youtube \in BOOLEAN
    /\ verbose = FALSE
    /\ file \in {"absent", "original"}
    /\ pc = "resolve"
    /\ fetched = NoFetch
    /\ video_url = NoUrl
    /\ kind = "none"
    /\ quality = ""
    /\ cookies_path = ""
    /\ browser_i = 0
    /\ yt_ret = "none"
    /\ dv_report = "none"
    /\ answer = "unasked"
    /\ trace = <<>>
    /\ calls = <<>>
    /\ lookup = NoLookup
    /\ exit_code = -1

(***************************************************************************)
(* main, lines 479-485: the video URL.                                     *)
(***************************************************************************)
ytVars == << quality, cookies_path, browser_i, yt_ret, calls, lookup >>

\* --direct-youtube: the source is taken as it is.
UseDirectYoutube ==
    /\ pc = "resolve"
    /\ direct_youtube
    /\ video_url' = source
    /\ pc' = "dispatch"
    /\ UNCHANGED << source, direct_youtube, verbose, file, fetched, kind, dv_report,
                    answer, trace, exit_code >>
    /\ UNCHANGED ytVars

\* extract_video_url returns the source without a fetch.
ResolveShortCircuit ==
    /\ pc = "resolve"
    /\ ~direct_youtube
    /\ is_youtube_url(source) \/ HasVideoExtension(source)
    /\ video_url' = source
    /\ pc' = "dispatch"
    /\ UNCHANGED << source, direct_youtube, verbose, file, fetched, kind, dv_report,
                    answer, trace, exit_code >>
    /\ UNCHANGED ytVars

\* extract_video_url fetches the page and extracts from the response.
ResolveFetch ==
    /\ pc = "resolve"
    /\ ~direct_youtube
    /\ ~(is_youtube_url(source) \/ HasVideoExtension(source))
    /\ \E nr \in BOOLEAN, resp \in Responses(source) :
          \E replies \in RepliesFor(source, resp) :
             LET result == ExtractFromResponse(source, ~nr, resp, replies)
             IN  /\ fetched' = [state |-> "ok", follow_redirects |-> ~nr,
                                history |-> resp.history, url |-> resp.url,
                                body |-> resp.body, replies |-> replies]
                 /\ video_url' = result.url
                 /\ trace' = Append(trace, "GET_page")
                                 \o [k \in 1..result.gets |-> "GET_iframe"]
    /\ pc' = "dispatch"
    /\ UNCHANGED << source, direct_youtube, verbose, file, kind, dv_report, answer, exit_code >>
    /\ UNCHANGED ytVars

\* requests.get raises: extract_video_url catches it and returns None.
ResolveFetchFails ==
    /\ pc = "resolve"
    /\ ~direct_youtube
    /\ ~(is_youtube_url(source) \/ HasVideoExtension(source))
    /\ \E nr \in BOOLEAN :
          fetched' = [NoFetch EXCEPT !.state = "raised", !.follow_redirects = ~nr]
    /\ video_url' = NoUrl
    /\ trace' = Append(trace, "GET_page")
    /\ pc' = "dispatch"
    /\ UNCHANGED << source, direct_youtube, verbose, file, kind, dv_report, answer, exit_code >>
    /\ UNCHANGED ytVars

(***************************************************************************)
(* main, lines 487-504: the choice of the download method.                 *)
(***************************************************************************)
\* Mutant: main tests the suffix before the YouTube test.
KindOf_SuffixFirst(url) ==
    IF url = NoUrl THEN "none"
    ELSE IF EndsWithAny(url, MainSuffixes) THEN "direct"
    ELSE IF is_youtube_url(url) THEN "youtube"
    ELSE "uncertain"

\* The branch main takes for a video URL.
KindOf(url) ==
    IF url = NoUrl THEN "none"
    ELSE IF is_youtube_url(url) THEN "youtube"
    ELSE IF EndsWithAny(url, MainSuffixes) THEN "direct"
    ELSE "uncertain"

\* Where main goes for a branch.
FirstStep(k) ==
    CASE k = "none"      -> "exit"
      [] k = "direct"    -> "dv_head"
      [] OTHER           -> "yt_lookup"

Dispatch ==
    /\ pc = "dispatch"
    /\ kind' = KindOf(video_url)
    /\ pc' = FirstStep(KindOf(video_url))
    /\ fetched' = NoFetch
    /\ UNCHANGED << source, direct_youtube, verbose, file, video_url,
                    dv_report, answer, trace, exit_code >>
    /\ UNCHANGED ytVars

\* Mutant: main falls back to the direct download for every kind.
AfterYoutube_AnyKind(k, ret) == IF ret = "false" THEN "dv_head" ELSE "exit"

\* Mutant: main calls download_youtube_video again when it returned False.
AfterYoutube_Again(k, ret) == IF ret = "false" THEN "yt_lookup" ELSE "exit"

\* Mutant: for an uncertain URL main calls download_video whatever was returned.
AfterYoutube_Always(k, ret) == IF k = "uncertain" THEN "dv_head" ELSE "exit"

\* Where main goes when download_youtube_video returned ret.
AfterYoutube(k, ret) ==
    IF k = "uncertain" /\ ret = "false" THEN "dv_head" ELSE "exit"

(***************************************************************************)
(* download_youtube_video.                                                 *)
(***************************************************************************)
\* Lines 130-153: the search for cookies.txt.
YtLookup ==
    /\ pc = "yt_lookup"
    /\ \E q \in Qualities, given \in {"", GivenCookies}, existing \in SUBSET CookiePaths :
          /\ quality' = q
          /\ lookup' = [given |-> given, existing |-> existing, done |-> TRUE]
          /\ cookies_path' = FirstExisting(cookies_locations(given), existing)
    /\ pc' = "yt_run"
    /\ UNCHANGED << source, direct_youtube, verbose, file, fetched, video_url, kind,
                    browser_i, yt_ret, dv_report, answer, trace, calls, exit_code >>

\* What the first run of the tool can do.
FirstOutcomes == {"ok", "fail", "fail_bot", "raised"}

\* Mutant: the ladder is entered without the test of cookies_path.
EntersLadder_NoCookieTest(cookies, outcome) == outcome = "fail_bot"

\* Lines 186-194: what follows the first run.
EntersLadder(cookies, outcome) == cookies # "" /\ outcome = "fail_bot"

\* Lines 155-194, 210-214: the first command and what follows it.
YtRun ==
    /\ pc = "yt_run"
    /\ \E outcome \in FirstOutcomes :
          /\ calls' = Append(calls,
                  [cmd |-> FirstCmd(cookies_path, quality, normalize_youtube_url(video_url)),
                   outcome |-> outcome])
          /\ IF outcome = "ok"
             THEN /\ yt_ret' = "true"
                  /\ browser_i' = browser_i
                  /\ pc' = AfterYoutube(kind, "true")
             ELSE IF EntersLadder(cookies_path, outcome)
             THEN /\ yt_ret' = yt_ret
                  /\ browser_i' = 1
                  /\ pc' = "yt_ladder"
             ELSE /\ yt_ret' = "false"
                  /\ browser_i' = browser_i
                  /\ pc' = AfterYoutube(kind, "false")
    /\ trace' = Append(trace, "tool")
    /\ lookup' = NoLookup
    /\ UNCHANGED << source, direct_youtube, verbose, file, fetched, video_url, kind,
                    quality, cookies_path, dv_report, answer, exit_code >>

\* The launches of the tool that raised so far.
Raised == Cardinality({ i \in 1..Len(calls) : calls[i].outcome = "raised" })

\* What one run of the ladder can do.
LadderOutcomes == {"ok", "fail"} \cup (IF Raised < MaxRaise THEN {"raised"} ELSE {})

\* Mutant: the ladder does not return at a run that exited 0.
LadderStops_Never(outcome) == FALSE

\* Mutant: a launch that raised ends the ladder like a run that exited 0.
LadderStops_OnRaise(outcome) == outcome # "fail"

\* Lines 198-208: does the ladder stop after this outcome?
LadderStops(outcome) == outcome = "ok"

\* Lines 197-210: one browser of the ladder.
YtLadderStep ==
    /\ pc = "yt_ladder"
    /\ browser_i \in 1..Len(browsers)
    /\ \E outcome \in LadderOutcomes :
          /\ calls' = Append(calls,
                  [cmd |-> AltCmd(browsers[browser_i], quality,
                                  normalize_youtube_url(video_url)),
                   outcome |-> outcome])
          /\ IF LadderStops(outcome)
             THEN /\ yt_ret' = "true"
                  /\ browser_i' = browser_i
                  /\ pc' = AfterYoutube(kind, "true")
             ELSE IF browser_i = Len(browsers)
             THEN /\ yt_ret' = "false"
                  /\ browser_i' = browser_i
                  /\ pc' = AfterYoutube(kind, "false")
             ELSE /\ yt_ret' = yt_ret
                  /\ browser_i' = browser_i + 1
                  /\ pc' = "yt_ladder"
    /\ trace' = Append(trace, "tool")
    /\ UNCHANGED << source, direct_youtube, verbose, file, fetched, video_url, kind,
                    quality, cookies_path, dv_report, answer, lookup, exit_code >>

(***************************************************************************)
(* download_video.                                                         *)
(***************************************************************************)
\* The answers to the overwrite prompt.
Answers == {"y", "Y", "n", "yes"}

\* Mutant: only the reply n declines.
Declines_OnlyN(reply) == reply = "n"

\* Line 58: response.lower() != 'y'.
Declines(reply) == reply \notin {"y", "Y"}

\* Mutant: main tries the tool again after the direct download.
AfterDirect_Retry(k) == IF k = "uncertain" THEN "yt_lookup" ELSE "exit"

\* Mutant: after the direct download of a direct video URL main runs the tool.
AfterDirect_ToolNext(k) == IF k = "direct" THEN "yt_lookup" ELSE "exit"

\* main, lines 496 and 502: nothing follows download_video.
AfterDirect(k) == "exit"

\* Lines 34-60: the HEAD request, then the test of the destination file.
DvHead ==
    /\ pc = "dv_head"
    /\ \E head_ok \in BOOLEAN, reply \in Answers :
          IF ~head_ok
          THEN /\ trace' = Append(trace, "HEAD")
               /\ dv_report' = "request_failed"
               /\ answer' = answer
               /\ pc' = AfterDirect(kind)
          ELSE IF file = "absent"
          THEN /\ trace' = Append(trace, "HEAD")
               /\ dv_report' = dv_report
               /\ answer' = answer
               /\ pc' = "dv_get"
          ELSE IF Declines(reply)
          THEN /\ trace' = trace \o <<"HEAD", "prompt">>
               /\ dv_report' = "cancelled"
               /\ answer' = reply
               /\ pc' = AfterDirect(kind)
          ELSE /\ trace' = trace \o <<"HEAD", "prompt">>
               /\ dv_report' = dv_report
               /\ answer' = reply
               /\ pc' = "dv_get"
    /\ UNCHANGED << source, direct_youtube, verbose, file, fetched, video_url, kind,
                    exit_code >>
    /\ UNCHANGED ytVars

\* Lines 63-64: the streaming GET and raise_for_status.
DvGet ==
    /\ pc = "dv_get"
    /\ \E get_ok \in BOOLEAN :
          IF get_ok
          THEN /\ dv_report' = dv_report
               /\ pc' = "dv_write"
          ELSE /\ dv_report' = "request_failed"
               /\ pc' = AfterDirect(kind)
    /\ trace' = Append(trace, "GET_stream")
    /\ UNCHANGED << source, direct_youtube, verbose, file, fetched, video_url, kind,
                    answer, exit_code >>
    /\ UNCHANGED ytVars

\* Lines 71-78: the file is opened for writing and the chunks are written.
\* complete: every chunk arrived; broken: the stream raised a RequestException
\* after the file was truncated; oserror: open() raised, which is not caught.
DvWrite ==
    /\ pc = "dv_write"
    /\ \E outcome \in {"complete", "broken", "oserror"} :
          CASE outcome = "complete" ->
                  /\ file' = "complete"
                  /\ dv_report' = "completed"
                  /\ pc' = AfterDirect(kind)
            [] outcome = "broken" ->
                  /\ file' = "partial"
                  /\ dv_report' = "request_failed"
                  /\ pc' = AfterDirect(kind)
            [] outcome = "oserror" ->
                  /\ file' = file
                  /\ dv_report' = dv_report
                  /\ pc' = "crash"
    /\ trace' = Append(trace, "open_wb")
    /\ UNCHANGED << source, direct_youtube, verbose, fetched, video_url, kind,
                    answer, exit_code >>
    /\ UNCHANGED ytVars

(***************************************************************************)
(* The end of the process.                                                 *)
(***************************************************************************)
\* main returns: the interpreter exits with 0.
ExitCodeOnReturn == 0

Exit ==
    /\ pc = "exit"
    /\ exit_code' = ExitCodeOnReturn
    /\ pc' = "done"
    /\ UNCHANGED << source, direct_youtube, verbose, file, fetched, video_url, kind,
                    dv_report, answer, trace >>
    /\ UNCHANGED ytVars

\* An exception download_video does not catch ends the process with a traceback.
Crash ==
    /\ pc = "crash"
    /\ exit_code' = 1
    /\ pc' = "done"
    /\ UNCHANGED << source, direct_youtube, verbose, file, fetched, video_url, kind,
                    dv_report, answer, trace >>
    /\ UNCHANGED ytVars

Next ==
    \/ UseDirectYoutube
    \/ ResolveShortCircuit
    \/ ResolveFetch
    \/ ResolveFetchFails
    \/ Dispatch
    \/ YtLookup
    \/ YtRun
    \/ YtLadderStep
    \/ DvHead
    \/ DvGet
    \/ DvWrite
    \/ Exit
    \/ Crash

Spec == Init /\ [][Next]_vars

\* main is one sequential program: the step it is at is taken, since every
\* call it waits for (HTTP request, yt-dlp, prompt) returns or raises.
FairSpec == Spec /\ WF_vars(Next)

(***************************************************************************)
(* extract_video_url on its own: one source URL that needs a fetch, one    *)
(* page that is not redirected, one resolution.                            *)
(***************************************************************************)
PageSources ==
    { <<"https://h/page">>, <<"https://", "tiz-cycling.tv", "/", "video.php">> }

PageResponses(url) == [history : {FALSE}, url : {url}, body : Bodies(MaxPageElems)]

PageInit ==
    /\ source \in PageSources
    /\ direct_youtube = FALSE
    /\ verbose = FALSE
    /\ file = "absent"
    /\ pc = "page"
    /\ fetched = NoFetch
    /\ video_url = NoUrl
    /\ kind = "none"
    /\ quality = ""
    /\ cookies_path = ""
    /\ browser_i = 0
    /\ yt_ret = "none"
    /\ dv_report = "none"
    /\ answer = "unasked"
    /\ trace = <<>>
    /\ calls = <<>>
    /\ lookup = NoLookup
    /\ exit_code = -1

\* extract_video_url fetches the page and extracts from the response.
ResolvePage ==
    /\ pc = "page"
    /\ \E nr \in BOOLEAN, resp \in PageResponses(source) :
          \E replies \in RepliesFor(source, resp) :
             LET result == ExtractFromResponse(source, ~nr, resp, replies)
             IN  /\ fetched' = [state |-> "ok", follow_redirects |-> ~nr,
                                history |-> resp.history, url |-> resp.url,
                                body |-> resp.body, replies |-> replies]
                 /\ video_url' = result.url
                 /\ trace' = Append(trace, "GET_page")
                                 \o [k \in 1..result.gets |-> "GET_iframe"]
    /\ pc' = "resolved"
    /\ UNCHANGED << source, direct_youtube, verbose, file, kind, dv_report, answer, exit_code >>
    /\ UNCHANGED ytVars

PageNext == ResolvePage

PageSpec == PageInit /\ [][PageNext]_vars

(***************************************************************************)
(* Properties.                                                             *)
(***************************************************************************)
\* The external operations that belong to the direct streaming download.
StreamingOps == {"HEAD", "prompt", "GET_stream", "open_wb"}

\* The retrieval method an external operation belongs to ("" for the page fetch).
MethodOf(op) ==
    IF op = "tool" THEN "delegated"
    ELSE IF op \in StreamingOps THEN "streaming"
    ELSE ""

\* The operations of the two retrieval methods, in order.
MethodTrace == SelectSeq(trace, LAMBDA op : MethodOf(op) # "")

\* The number of changes of method along the job.
Switches ==
    LET mt == MethodTrace
    IN  Cardinality({ i \in 1..(Len(mt) - 1) : MethodOf(mt[i]) # MethodOf(mt[i + 1]) })

\* The job ended in success: a download reported that it completed.
JobSucceeded == yt_ret = "true" \/ dv_report = "completed"

\* download_youtube_video has returned.
YtReturned == yt_ret # "none"

\* C1: the browser-cookie ladder is entered exactly when the first run of the
\* tool exited non-zero, a cookie file had been passed to it and its stderr
\* held the bot-verification phrase; any other non-zero exit makes the function
\* return False with no further run, and exit code 0 makes it return True with
\* no further run.
C1_LadderEntry ==
    Len(calls) >= 1 =>
        LET first == calls[1]
            trigger == first.outcome = "fail_bot" /\ first.cmd.cookies # ""
        IN  /\ (Len(calls) >= 2 \/ pc = "yt_ladder") <=> trigger
            /\ (first.outcome \in {"fail", "fail_bot"} /\ ~trigger)
                   => (yt_ret = "false" /\ Len(calls) = 1)
            /\ first.outcome = "ok" => (yt_ret = "true" /\ Len(calls) = 1)

C1_Witness ==
    /\ Len(calls) >= 2
    /\ calls[1].outcome = "fail_bot"
    /\ calls[1].cmd.cookies # ""

\* C2: in the ladder the tool runs at most once per browser, in the order
\* chrome, firefox, edge, safari, brave, opera; nothing runs after a run that
\* exited 0 and the result is then success; when all six runs fail the result
\* is failure; the ladder runs at most once in a job.
C2_Ladder ==
    LET order == <<"chrome", "firefox", "edge", "safari", "brave", "opera">>
    IN  /\ Len(calls) <= 1 + Len(order)
        /\ \A i \in 2..Len(calls) :
              /\ calls[i].cmd.browser = order[i - 1]
              /\ i < Len(calls) => calls[i].outcome # "ok"
        /\ (Len(calls) >= 2 /\ calls[Len(calls)].outcome = "ok") => yt_ret = "true"
        /\ (Len(calls) >= 2 /\ YtReturned /\ calls[Len(calls)].outcome # "ok")
               => (yt_ret = "false" /\ Len(calls) = 1 + Len(order))
        /\ (Len(calls) >= 2 /\ ~YtReturned) => (pc = "yt_ladder" /\ Len(calls) <= Len(order))

C2_Witness ==
    /\ Len(calls) = 7
    /\ calls[7].outcome # "ok"
    /\ calls[7].cmd.browser = "opera"
    /\ yt_ret = "false"

\* C3: every run of the tool carries --no-playlist.
C3_NoPlaylistEverywhere == \A i \in 1..Len(calls) : calls[i].cmd.no_playlist

\* C4: every run of the tool uses the format expression of the job's quality,
\* and a ladder run differs from the first run only in where the cookies
\* come from.
C4_FormatFromQuality ==
    \A i \in 1..Len(calls) :
        /\ calls[i].cmd.fmt = FormatFor(quality)
        /\ [calls[i].cmd EXCEPT !.cookies = "", !.browser = ""]
             = [calls[1].cmd EXCEPT !.cookies = "", !.browser = ""]

\* C5: a source URL that extract_video_url takes for a direct media file (not
\* a YouTube URL, a video extension in it) is streamed directly: no run of
\* the tool comes before the streaming download.
C5_DirectMediaStreamsFirst ==
    (~direct_youtube /\ ~is_youtube_url(source) /\ HasVideoExtension(source))
        => (MethodTrace # <<>> => MethodTrace[1] = "HEAD")

\* C6: for a video URL that is a YouTube URL only the tool is run, never the
\* direct streaming download, also when every run of the tool failed.
C6_VideoServiceNeverStreams ==
    (pc # "resolve" /\ is_youtube_url(video_url))
        => \A i \in 1..Len(trace) : trace[i] \notin StreamingOps

C6_Witness ==
    /\ pc = "done"
    /\ is_youtube_url(video_url)
    /\ yt_ret = "false"
    /\ Len(calls) = 7

\* C7: a job changes its retrieval method at most once, never returns to the
\* first method, and changes only for a video URL of uncertain kind.
C7_SingleSwitch ==
    LET n == Switches
    IN  /\ n <= 1
        /\ n = 1 =>
          /\ video_url # NoUrl
          /\ ~is_youtube_url(video_url)
          /\ ~EndsWithAny(video_url, {".mp4", ".mkv", ".mov", ".webm", ".avi"})

C7_Witness ==
    /\ pc = "done"
    /\ Switches = 1
    /\ Len(calls) = 7
    /\ dv_report = "request_failed"

\* C8: when the destination file exists and the prompt is answered with
\* anything but y or Y, the file stays as it was, it is not opened for
\* writing, no GET is sent, and the job reports a cancellation, not a
\* completed download.
C8_DeclinedOverwrite ==
    (answer # "unasked" /\ answer \notin {"y", "Y"}) =>
        /\ file = "original"
        /\ \A i \in 1..Len(trace) : trace[i] \notin {"GET_stream", "open_wb"}
        /\ dv_report = "cancelled"
        /\ ~JobSucceeded

C8_Witness ==
    /\ pc = "done"
    /\ answer = "yes"
    /\ file = "original"
    /\ dv_report = "cancelled"

\* C9: the process exits with 0 exactly when the job succeeded.
C9_ExitCodeTellsSuccess == pc = "done" => (exit_code = 0 <=> JobSucceeded)

\* C10: the cookie file is the first existing one of: the --cookies path (if
\* given), cookies.txt beside the script, cookies.txt in the working
\* directory, ~/.config/yt-dlp/cookies.txt; with none existing no cookie file
\* is used, and the tool is run all the same, with that file.
C10_CookieOrder ==
    LET order == << "<--cookies>", "<script_dir>/cookies.txt", "<cwd>/cookies.txt",
                    "~/.config/yt-dlp/cookies.txt" >>
        usable(i) == order[i] \in lookup.existing /\ (i = 1 => lookup.given # "")
    IN  /\ lookup.done =>
              /\ (\A i \in 1..4 : ~usable(i)) => cookies_path = ""
              /\ \A i \in 1..4 :
                    (usable(i) /\ \A j \in 1..(i - 1) : ~usable(j))
                        => cookies_path = order[i]
        /\ YtReturned => Len(calls) >= 1
        /\ Len(calls) >= 1 => calls[1].cmd.cookies = cookies_path

C10_Witness ==
    /\ pc = "yt_run"
    /\ lookup.given # ""
    /\ lookup.existing = {"<cwd>/cookies.txt", "~/.config/yt-dlp/cookies.txt"}
    /\ cookies_path = "<cwd>/cookies.txt"

(***************************************************************************)
(* The resolution pipeline.                                                *)
(***************************************************************************)
\* The page fetch of extract_video_url has happened.
PageFetched == \E i \in 1..Len(trace) : trace[i] = "GET_page"

\* C11: for a source URL that is a YouTube URL, or that holds one of the
\* seven video extensions (in any case), extract_video_url returns the URL
\* itself and sends no HTTP request.
C11_ShortCircuitWithoutFetch ==
    LET exts == {".mp4", ".mkv", ".mov", ".avi", ".wmv", ".flv", ".webm"}
        video_service == Has(source, "youtube.com") \/ Has(source, "youtu.be")
        direct_media  == \E ext \in exts : Has(Lower(source), ext)
    IN  (video_service \/ direct_media) =>
            /\ \A i \in 1..Len(trace) : trace[i] \notin {"GET_page", "GET_iframe"}
            /\ pc # "resolve" => video_url = source

C11_Witness ==
    /\ pc = "dispatch"
    /\ ~direct_youtube
    /\ Has(source, ".flv")
    /\ ~is_youtube_url(source)
    /\ video_url = source

\* C12: when the page fetch was redirected and ended at a YouTube URL, the
\* final URL is what extract_video_url returns, whatever the options.
C12_RedirectToVideoService ==
    (pc = "dispatch" /\ fetched.state = "ok" /\ fetched.history
        /\ is_youtube_url(fetched.url))
        => video_url = fetched.url

\* The first <video> element of a body that carries a source, 0 if none.
FirstVideo(body) == MinIdx({ i \in 1..Len(body) : body[i].kind \in VideoKinds })

\* C13: when the body of the fetched page holds a match of the tiz-cycling
\* media-URL patterns and a <video> element with a source, the URL returned
\* is the match of the patterns.
C13_SiteSpecificBeatsVideoTag ==
    (pc = "resolved" /\ TizMp4Search(fetched.body) # NoUrl
        /\ FirstVideo(fetched.body) # 0)
        => video_url = TizMp4Search(fetched.body)

\* The body holds a frame whose src is a YouTube embed URL.
HasEmbedFrame(body) ==
    \E i \in 1..Len(body) :
        /\ body[i].kind \in IframeKinds
        /\ Has(body[i].url, "youtube.com")
        /\ Has(body[i].url, "/embed/")

\* C14: for a fetched page with a YouTube embed frame, the YouTube URL that
\* extract_video_url returns is already in the watch?v=<id> form: it holds
\* no /embed/ and normalize_youtube_url leaves it as it is.
C14_CanonicalAtPipelineExit ==
    (pc = "dispatch" /\ fetched.state = "ok" /\ HasEmbedFrame(fetched.body)
        /\ is_youtube_url(video_url))
        => /\ ~Has(video_url, "/embed/")
           /\ normalize_youtube_url(video_url) = video_url

\* C15: when the page of a source URL was fetched and its body is empty,
\* extract_video_url returns None and main goes to its end with no download
\* (a fetch that was redirected to a YouTube URL aside, which is answered
\* from the final URL and not from the body).
C15_EmptyBodyNoLocator ==
    (pc = "dispatch" /\ fetched.state = "ok" /\ fetched.body = <<>>
        /\ ~(fetched.history /\ is_youtube_url(fetched.url)))
        => /\ video_url = NoUrl
           /\ FirstStep(KindOf(video_url)) = "exit"

\* The response of the page fetch, as extract_video_url holds it.
FetchedResponse ==
    [history |-> fetched.history, url |-> fetched.url, body |-> fetched.body]

\* C16: the URL that extract_video_url returns depends on the source URL,
\* the options and the fetched page only: whatever the further fetches of
\* the resolution might have returned, the result would be the same.
C16_ResolutionDependsOnPageOnly ==
    (pc = "dispatch" /\ fetched.state = "ok") =>
        \A replies \in RepliesFor(source, FetchedResponse) :
            ExtractFromResponse(source, fetched.follow_redirects,
                                FetchedResponse, replies).url = video_url

\* The number of times op occurs among the external operations of the job.
Count(op) == Cardinality({ i \in 1..Len(trace) : trace[i] = op })

\* The steps main has left at most, from where it is.
StepsLeft ==
    CASE pc = "resolve"   -> 14
      [] pc = "dispatch"  -> 13
      [] pc = "yt_lookup" -> 12
      [] pc = "yt_run"    -> 11
      [] pc = "yt_ladder" -> 11 - browser_i
      [] pc = "dv_head"   -> 4
      [] pc = "dv_get"    -> 3
      [] pc = "dv_write"  -> 2
      [] pc = "exit"      -> 1
      [] pc = "crash"     -> 1
      [] OTHER            -> 0

\* The positions of main whose step has no guard but the position itself:
\* at "resolve" one of the three ways of extract_video_url (or the
\* --direct-youtube branch) applies, whatever the source.
FreePositions ==
    {"resolve", "dispatch", "yt_lookup", "yt_run", "dv_head", "dv_get",
     "dv_write", "exit", "crash"}

\* main is at its end, or the step it is at can be taken.
NotStuck ==
    \/ pc = "done"
    \/ pc \in FreePositions
    \/ pc = "yt_ladder" /\ browser_i \in 1..Len(browsers)

\* C17: every job ends, after at most one page fetch, at most 1 + 6 runs of
\* the tool and at most one direct streaming attempt: main is never stuck
\* before its end, and every step leaves it fewer steps to take.
C17_JobTerminates ==
    /\ [](/\ Count("GET_page") <= 1
          /\ Count("tool") <= 7
          /\ Count("HEAD") <= 1
          /\ Count("GET_stream") <= 1
          /\ Count("open_wb") <= 1
          /\ StepsLeft \in 0..14
          /\ NotStuck)
    /\ [][StepsLeft' < StepsLeft]_vars

C17_Witness ==
    /\ pc = "done"
    /\ Count("GET_page") = 1
    /\ Count("tool") = 7
    /\ Count("GET_stream") = 1
    /\ exit_code = 0

\* The first frame of a body whose src is a YouTube URL, 0 if none.
FirstServiceFrame(body) ==
    MinIdx({ i \in 1..Len(body) :
               body[i].kind \in IframeKinds /\ is_youtube_url(body[i].url) })

\* The body holds no frame and no video-wrapper container.
NoFrames(body) ==
    \A i \in 1..Len(body) : body[i].kind \notin (IframeKinds \cup WrapperKinds)

\* C18: the URL returned is the match of the earliest strategy in the order
\* (a) tiz-cycling patterns, (b) frame with a YouTube src, (c) proxy frame
\* with v, (d) video-wrapper frame, (e) <video>, (f) flowplayer payload,
\* (g) YouTube links, (h) raw scan.  Two consequences: without a match of
\* (a), a frame with a YouTube src is what is returned, also when a
\* video-wrapper is on the page; without a match of (a) and without frames,
\* the source of the first <video> is what is returned, also when a
\* flowplayer payload is on the page.
C18_StrategyPriority ==
    pc = "resolved" =>
        LET body == fetched.body
            b == FirstServiceFrame(body)
            e == FirstVideo(body)
        IN  /\ (TizMp4Search(body) = NoUrl /\ b # 0) => video_url = body[b].url
            /\ (TizMp4Search(body) = NoUrl /\ NoFrames(body) /\ e # 0)
                   => video_url = body[e].url

(***************************************************************************)
(* The direct download.                                                    *)
(***************************************************************************)
\* The last external operation of the job so far, "" before the first.
LastOp == IF trace = <<>> THEN "" ELSE trace[Len(trace)]

\* C19: a failed HEAD request does not end download_video: when the function
\* has returned, the HEAD was not its last operation (the prompt or the GET
\* came after it).
C19_HeadFailureNotFatal == pc \in {"exit", "done"} => LastOp # "HEAD"

\* The streaming GET failed, or the stream broke while the file was written.
StreamFailed ==
    /\ dv_report = "request_failed"
    /\ Count("GET_stream") >= 1

\* C20: when the streaming GET fails (at the request or while the body is
\* read), download_video returns at once: the GET is sent once, nothing is
\* sent after the failure, no run of the tool follows, and main ends.
C20_StreamFailureIsFinal ==
    StreamFailed =>
        /\ Count("GET_stream") = 1
        /\ LastOp \in {"GET_stream", "open_wb"}
        /\ Count("open_wb") <= 1
        /\ pc \in {"exit", "done"}
        /\ \A i, j \in 1..Len(trace) :
              (trace[i] = "GET_stream" /\ i < j) => trace[j] = "open_wb"

C20_Witness ==
    /\ pc = "done"
    /\ StreamFailed
    /\ LastOp = "GET_stream"
    /\ kind = "uncertain"
    /\ Count("tool") = 7

(***************************************************************************)
(* The fallback between the two download functions.                        *)
(***************************************************************************)
\* main has chosen its branch, and video_url is neither a YouTube URL nor
\* a URL that ends in one of the suffixes of main.
Ambiguous ==
    /\ pc \notin {"resolve", "dispatch"}
    /\ video_url # NoUrl
    /\ ~(Has(video_url, "youtube.com") \/ Has(video_url, "youtu.be"))
    /\ ~EndsWithAny(video_url, {".mp4", ".mkv", ".mov", ".webm", ".avi"})

\* C21: for an ambiguous video URL the direct download is attempted exactly
\* when download_youtube_video, with the runs of its ladder, returned False;
\* it is attempted at most once, and after every run of the tool.
C21_StreamingOnlyAfterToolFailed ==
    Ambiguous =>
        /\ Count("HEAD") <= 1
        /\ Count("HEAD") = 1 => yt_ret = "false"
        /\ yt_ret = "false" => (pc = "dv_head" \/ Count("HEAD") = 1)
        /\ yt_ret = "true" => pc \in {"exit", "done"}
        /\ \A i, j \in 1..Len(trace) :
              (trace[i] \in StreamingOps /\ i < j) => trace[j] # "tool"

C21_Witness ==
    /\ Ambiguous
    /\ pc = "done"
    /\ yt_ret = "false"
    /\ Count("tool") = 7
    /\ dv_report = "completed"

\* C22: a source URL that is a YouTube URL and also holds a video extension
\* is treated as a YouTube URL: it is returned as it is without a fetch, and
\* it is downloaded with the tool only, never with the direct download.
C22_VideoServiceBeforeSuffix ==
    LET exts == {".mp4", ".mkv", ".mov", ".avi", ".wmv", ".flv", ".webm"}
        video_service == Has(source, "youtube.com") \/ Has(source, "youtu.be")
        with_suffix   == \E ext \in exts : Has(Lower(source), ext)
    IN  (video_service /\ with_suffix) =>
            /\ \A i \in 1..Len(trace) : trace[i] = "tool"
            /\ pc # "resolve" => video_url = source
            /\ pc \notin {"resolve", "dispatch"} => kind = "youtube"
            /\ pc = "done" => Count("tool") >= 1

C22_Witness ==
    /\ pc = "done"
    /\ Has(source, "youtube.com")
    /\ source[Len(source)] = ".mp4"
    /\ kind = "youtube"
    /\ yt_ret = "false"
    /\ Count("tool") = 1

\* The first frame of a body whose src is a video.php endpoint with a URL
\* in its v parameter, 0 if none.
FirstProxyFrame(body) ==
    MinIdx({ i \in 1..Len(body) :
               /\ body[i].kind \in IframeKinds
               /\ Has(body[i].url, "video.php")
               /\ StartsWithHttp(unquote(QueryV(body[i].url))) })

\* C23: for a fetched page with a frame whose src is video.php?v=<encoded
\* URL>, extract_video_url returns the decoded URL of the first such frame,
\* and main downloads it as a direct video URL (a fetch that was redirected
\* to a YouTube URL aside).
C23_ProxyFrameDecoded ==
    (pc = "dispatch" /\ fetched.state = "ok"
        /\ ~(fetched.history /\ is_youtube_url(fetched.url))
        /\ FirstProxyFrame(fetched.body) # 0)
        => /\ video_url = unquote(QueryV(fetched.body[FirstProxyFrame(fetched.body)].url))
           /\ FirstStep(KindOf(video_url)) = "dv_head"

(***************************************************************************)
(* yt.py.  It shares the variables of the job: source is args.url, quality *)
(* the height normalize_quality returned (as a string), file the output    *)
(* file of the video title, lookup.existing the cookie files that exist,   *)
(* calls the runs of the tool with their outcomes, yt_ret what             *)
(* download_youtube_video returned.                                        *)
(***************************************************************************)
\* The values of --quality drawn.
QualityInputs == {"1080p", "4K", " uhd ", "720p", "x2160"}

\* quality_input.lower().strip().
StripLower(t) ==
    CASE t = "4K"    -> "4k"
      [] t = " uhd " -> "uhd"
      [] t = "Y"     -> "y"
      [] t = " Yes " -> "yes"
      [] OTHER       -> t

\* normalize_quality: quality_map, "" for a key that is not in it.
quality_map(key) ==
    CASE key \in {"1080", "1080p", "fhd", "hd"} -> "1080"
      [] key \in {"2160", "2160p", "4k", "uhd"} -> "2160"
      [] OTHER                                    -> ""

\* re.findall(r'\d+', quality_input)[0], "" when there is no number.
FirstNumber(t) ==
    CASE t = "1080p" -> "1080"
      [] t = "720p"  -> "720"
      [] t = "x2160" -> "2160"
      [] t = "4K"    -> "4"
      [] OTHER       -> ""

\* normalize_quality: the height, 1080 by default.
normalize_quality(quality_input) ==
    IF quality_map(StripLower(quality_input)) # ""
    THEN quality_map(StripLower(quality_input))
    ELSE IF FirstNumber(quality_input) \in {"1080", "2160"}
    THEN FirstNumber(quality_input)
    ELSE "1080"

\* find_cookies_file: the first existing location, "" for None.
find_cookies_file(existing) ==
    FirstExisting(<<ScriptDirCookies, CwdCookies, ConfigCookies>>, existing)

\* The command lines of yt.py.
ListFormatsCmd(url, cookies) ==
    [ mode |-> "list_formats", client |-> "", cookies |-> cookies, fmt |-> "",
      no_playlist |-> FALSE, insecure |-> FALSE, verbose |-> FALSE, url |-> url ]

GetTitleCmd(url, cookies) ==
    [ mode |-> "get_title", client |-> "", cookies |-> cookies, fmt |-> "",
      no_playlist |-> TRUE, insecure |-> FALSE, verbose |-> FALSE, url |-> url ]

PrimaryCmd(url, cookies, height, v) ==
    [ mode |-> "download", client |-> "android,web", cookies |-> cookies,
      fmt |-> IF height = "2160" THEN "bestvideo[height=2160]+bestaudio/..."
                                 ELSE "bestvideo[height=1080]+bestaudio/...",
      no_playlist |-> TRUE, insecure |-> FALSE, verbose |-> v, url |-> url ]

FallbackCmd(url, cookies, height, v) ==
    [ mode |-> "download", client |-> "android", cookies |-> cookies,
      fmt |-> IF height = "2160" THEN "best[height>=2160]/.../best[height>=1440]/..."
                                 ELSE "best[height>=1080]/.../best[height>=720]/...",
      no_playlist |-> TRUE, insecure |-> TRUE, verbose |-> v, url |-> url ]

\* The replies to the overwrite prompt of check_existing_file.
Replies == {"y", "Y", " Yes ", "n", "", "ok"}

\* Mutant: every reply but n lets the download proceed.
Proceeds_UnlessN(reply) == StripLower(reply) # "n"

\* check_existing_file, lines 135-136: the reply lets the download proceed.
Proceeds(reply) == StripLower(reply) \in {"y", "yes"}

\* Mutant: the fallback command is run whatever the first run did.
AfterPrimary_AlwaysFallback(outcome) ==
    CASE outcome = "raised" -> "yp_return"
      [] OTHER              -> "yp_fallback"

\* download_youtube_video, lines 206-212 and 267-273: after the first run.
AfterPrimary(outcome) ==
    CASE outcome = "fail" -> "yp_fallback"
      [] OTHER            -> "yp_return"

YtPyInit ==
    /\ source \in BaseUrls
    /\ direct_youtube = FALSE
    /\ verbose \in BOOLEAN
    /\ file \in {"absent", "original"}
    /\ pc = "yp_main"
    /\ fetched = NoFetch
    /\ video_url = NoUrl
    /\ kind = "none"
    /\ quality \in QualityInputs
    /\ cookies_path = ""
    /\ browser_i = 0
    /\ yt_ret = "none"
    /\ dv_report = "none"
    /\ answer = "unasked"
    /\ trace = <<>>
    /\ calls = <<>>
    /\ lookup \in [given : {""}, existing : SUBSET (CookiePaths \ {GivenCookies}),
                   done : {FALSE}]
    /\ exit_code = -1

ypFixed == << source, direct_youtube, verbose, fetched, video_url, kind, browser_i,
              dv_report, lookup >>

\* main, lines 301-311: the test of the URL, normalize_quality, the call.
YpMain ==
    /\ pc = "yp_main"
    /\ IF is_youtube_url(source)
       THEN /\ quality' = normalize_quality(quality)
            /\ cookies_path' = find_cookies_file(lookup.existing)
            /\ pc' = IF verbose THEN "yp_list" ELSE "yp_title"
            /\ exit_code' = exit_code
       ELSE /\ quality' = quality
            /\ cookies_path' = cookies_path
            /\ pc' = "done"
            /\ exit_code' = 1
    /\ UNCHANGED << file, yt_ret, answer, trace, calls >>
    /\ UNCHANGED ypFixed

\* download_youtube_video, lines 153-154, with list_available_formats.
YpListFormats ==
    /\ pc = "yp_list"
    /\ \E outcome \in {"ok", "fail", "raised"} :
          /\ calls' = Append(calls, [cmd |-> ListFormatsCmd(source, cookies_path),
                                     outcome |-> outcome])
          /\ IF outcome = "ok"
             THEN yt_ret' = yt_ret /\ pc' = "yp_title"
             ELSE yt_ret' = "false" /\ pc' = "yp_return"
    /\ trace' = Append(trace, "list_formats")
    /\ UNCHANGED << file, quality, cookies_path, answer, exit_code >>
    /\ UNCHANGED ypFixed

\* download_youtube_video, lines 157-158, with check_existing_file and
\* get_video_title: the title, the test of the file, the prompt.
YpCheckExisting ==
    /\ pc = "yp_title"
    /\ \E outcome \in {"ok", "fail", "raised"}, reply \in Replies :
          /\ calls' = Append(calls, [cmd |-> GetTitleCmd(source, cookies_path),
                                     outcome |-> outcome])
          /\ IF outcome = "ok" /\ file = "original"
             THEN /\ trace' = trace \o <<"get_title", "prompt">>
                  /\ answer' = reply
                  /\ IF Proceeds(reply)
                     THEN yt_ret' = yt_ret /\ pc' = "yp_primary"
                     ELSE yt_ret' = "false" /\ pc' = "yp_return"
             ELSE /\ trace' = Append(trace, "get_title")
                  /\ answer' = answer
                  /\ yt_ret' = yt_ret
                  /\ pc' = "yp_primary"
    /\ UNCHANGED << file, quality, cookies_path, exit_code >>
    /\ UNCHANGED ypFixed

\* download_youtube_video, lines 165-212: the first download command.
YpPrimary ==
    /\ pc = "yp_primary"
    /\ \E outcome \in {"ok", "fail", "raised"} :
          /\ calls' = Append(calls,
                  [cmd |-> PrimaryCmd(source, cookies_path, quality, verbose),
                   outcome |-> outcome])
          /\ pc' = AfterPrimary(outcome)
          /\ yt_ret' = CASE outcome = "ok"     -> "true"
                         [] outcome = "raised" -> "false"
                         [] OTHER              -> yt_ret
          /\ file' = IF outcome = "ok" THEN "complete" ELSE file
    /\ trace' = Append(trace, "tool")
    /\ UNCHANGED << quality, cookies_path, answer, exit_code >>
    /\ UNCHANGED ypFixed

\* download_youtube_video, lines 218-273: the fallback download command.
YpFallback ==
    /\ pc = "yp_fallback"
    /\ \E outcome \in {"ok", "fail", "raised"} :
          /\ calls' = Append(calls,
                  [cmd |-> FallbackCmd(source, cookies_path, quality, verbose),
                   outcome |-> outcome])
          /\ yt_ret' = IF outcome = "ok" THEN "true" ELSE "false"
          /\ file' = IF outcome = "ok" THEN "complete" ELSE file
    /\ pc' = "yp_return"
    /\ trace' = Append(trace, "tool")
    /\ UNCHANGED << quality, cookies_path, answer, exit_code >>
    /\ UNCHANGED ypFixed

\* main, line 312: sys.exit(0 if success else 1).
YpExit ==
    /\ pc = "yp_return"
    /\ exit_code' = IF yt_ret = "true" THEN 0 ELSE 1
    /\ pc' = "done"
    /\ UNCHANGED << file, quality, cookies_path, yt_ret, answer, trace, calls >>
    /\ UNCHANGED ypFixed

YtPyNext ==
    \/ YpMain
    \/ YpListFormats
    \/ YpCheckExisting
    \/ YpPrimary
    \/ YpFallback
    \/ YpExit

YtPySpec == YtPyInit /\ [][YtPyNext]_vars

\* The download runs of the tool in yt.py, as positions in calls.
Downloads == { i \in 1..Len(calls) : calls[i].cmd.mode = "download" }

\* C24: yt.py runs the tool for a download at most twice: the first command,
\* then the fallback command only when the first run exited non-zero, and
\* nothing after; download_youtube_video returns True exactly when one of
\* the two exited 0, and the process exits with 0 exactly when it did.
C24_TwoAttemptsAtMost ==
    /\ Cardinality(Downloads) <= 2
    /\ \A i \in Downloads :
          IF i = MinIdx(Downloads)
          THEN calls[i].cmd.client = "android,web"
          ELSE /\ calls[i].cmd.client = "android"
               /\ calls[MinIdx(Downloads)].outcome = "fail"
               /\ i = Len(calls)
    /\ yt_ret = "true" <=> \E i \in Downloads : calls[i].outcome = "ok"
    /\ \A i \in Downloads : calls[i].outcome = "ok" => i = Len(calls)
    /\ pc = "done" => (exit_code = 0 <=> yt_ret = "true")
    /\ pc = "done" => (yt_ret # "true" => exit_code = 1)

C24_Witness ==
    /\ pc = "done"
    /\ Cardinality(Downloads) = 2
    /\ calls[Len(calls)].outcome = "ok"
    /\ yt_ret = "true"
    /\ exit_code = 0

\* C25: when the output file exists and the prompt of check_existing_file
\* got a reply that is not y or yes (case and surrounding blanks aside),
\* download_youtube_video returns False and no download run of the tool is
\* made; the file stays as it was.
C25_DeclinedNoDownload ==
    (answer # "unasked" /\ answer \notin {"y", "Y", " Yes "}) =>
        /\ Downloads = {}
        /\ yt_ret = "false"
        /\ file = "original"
        /\ pc \in {"yp_return", "done"}
        /\ pc = "done" => exit_code = 1

C25_Witness ==
    /\ pc = "done"
    /\ answer = "ok"
    /\ file = "original"
    /\ Len(calls) = 2
    /\ yt_ret = "false"

(***************************************************************************)
(* C26.                                                                    *)
(***************************************************************************)
\* The position of a browser in the ladder's list, 0 for a command that is
\* not a step of the ladder.
BrowserPos(cmd) ==
    IF \E k \in 1..Len(browsers) : browsers[k] = cmd.browser
    THEN CHOOSE k \in 1..Len(browsers) : browsers[k] = cmd.browser
    ELSE 0

\* The steps of the ladder whose launch raised.
RaisedLadderCalls ==
    { i \in 1..Len(calls) : BrowserPos(calls[i].cmd) > 0 /\ calls[i].outcome = "raised" }

\* C26: a launch of the tool that raises for one browser of the ladder does
\* not end the ladder: that browser is skipped and the next browser of the
\* list is the next thing run; only after the last browser of the list does
\* download_youtube_video return, with False.
C26_RaiseSkipsBrowser ==
    \A i \in RaisedLadderCalls :
        LET k == BrowserPos(calls[i].cmd)
        IN  IF k < Len(browsers)
            THEN IF i = Len(calls)
                 THEN pc = "yt_ladder" /\ browser_i = k + 1 /\ yt_ret = "none"
                 ELSE calls[i + 1].cmd.browser = browsers[k + 1]
            ELSE i = Len(calls) /\ yt_ret = "false"

\* The launch for one browser raised and the next browser's run, which
\* exited 0, made the download succeed.
C26_Witness ==
    /\ Len(calls) >= 3
    /\ (Len(calls) - 1) \in RaisedLadderCalls
    /\ BrowserPos(calls[Len(calls)].cmd) = BrowserPos(calls[Len(calls) - 1].cmd) + 1
    /\ calls[Len(calls)].outcome = "ok"
    /\ yt_ret = "true"

(***************************************************************************)
(* normalize_youtube_url alone, applied to a URL and again to its result.  *)
(* source is the URL given first, video_url the current value, trace the   *)
(* applications made so far.                                               *)
(***************************************************************************)
\* The forms of URL the function tells apart: embed, short, watch with the
\* v parameter first or later in the query, and a URL of another site.
NormHeads ==
    { <<"https://www.", "youtube.com", "/embed/">>,
      <<"https://", "youtu.be", "/">>,
      <<"https://www.", "youtube.com", "/watch", "?", "v=">>,
      <<"https://www.", "youtube.com", "/watch", "?", "x=1", "&", "v=">>,
      <<"https://h/page", "?", "x=">> }

\* The video id written after the head: plain, percent-encoded, or missing.
NormIds == { <<"ID">>, <<"%2Emp4">>, <<>> }

\* What follows the id: nothing, a query, a further parameter, a fragment.
NormTails == { <<>>, <<"?", "x=1">>, <<"&", "t=5">>, <<"#", "t=5">> }

NormInputs == { h \o i \o t : h \in NormHeads, i \in NormIds, t \in NormTails }

NormInit ==
    /\ source \in NormInputs
    /\ direct_youtube = FALSE
    /\ verbose = FALSE
    /\ file = "absent"
    /\ pc = "normalize"
    /\ fetched = NoFetch
    /\ video_url = source
    /\ kind = "none"
    /\ quality = ""
    /\ cookies_path = ""
    /\ browser_i = 0
    /\ yt_ret = "none"
    /\ dv_report = "none"
    /\ answer = "unasked"
    /\ trace = <<>>
    /\ calls = <<>>
    /\ lookup = NoLookup
    /\ exit_code = -1

\* One application of normalize_youtube_url to the current value; the
\* function is applied twice at most.
Normalize ==
    /\ pc = "normalize"
    /\ Len(trace) < 2
    /\ video_url' = normalize_youtube_url(video_url)
    /\ trace' = Append(trace, "normalize")
    /\ UNCHANGED << source, direct_youtube, verbose, file, pc, fetched, kind,
                    dv_report, answer, exit_code >>
    /\ UNCHANGED ytVars

NormNext == Normalize

NormSpec == NormInit /\ [][NormNext]_vars

\* C27: normalize_youtube_url is idempotent: applied to its own result it
\* returns that result, for every URL it is given.
C27_NormalizeIdempotent ==
    (pc = "normalize" /\ Len(trace) = 2) => video_url = normalize_youtube_url(source)

====
